---------------------------- MODULE Spec2Model ----------------------------
(***************************************************************************)
(* Model of the single-line pattern matcher of src/src/matcher.rs:         *)
(* match_pattern (anchor fast path), parse_pattern (the pattern compiler)  *)
(* and match_with_pattern (the matching engine).                           *)
(*                                                                         *)
(* A Rust char is a one-character string here; CodePoint gives its Unicode *)
(* scalar value.  A &str is a sequence of chars, a &[u8] a sequence of     *)
(* integers in 0..255.  `c as u8` and str::as_bytes are modelled by what   *)
(* they compute (truncation to 8 bits, UTF-8 encoding).                    *)
(***************************************************************************)
EXTENDS Integers, Sequences, FiniteSets, TLC

VARIABLES input_line, pattern, pc, pattern_chars, tokens, input_bytes,
          pattern_iter, result, exit_site

vars == <<input_line, pattern, pc, pattern_chars, tokens, input_bytes,
          pattern_iter, result, exit_site>>

(***************************************************************************)
(* Characters and bytes                                                    *)
(***************************************************************************)

\* Unicode scalar values of the characters the model draws its inputs from.
\* "L/" stands for U+0141 (LATIN CAPITAL LETTER L WITH STROKE), a non-ASCII
\* character whose UTF-8 encoding has two bytes.
CodePoint ==
    [c \in {"\\", "d", "w", "+", "?", ".", "^", "$", "[", "]", "(", "|", ")",
            "a", "b", "1", "L/"} |->
        CASE c = "\\" -> 92  [] c = "d" -> 100 [] c = "w" -> 119
          [] c = "+"  -> 43  [] c = "?" -> 63  [] c = "." -> 46
          [] c = "^"  -> 94  [] c = "$" -> 36  [] c = "[" -> 91
          [] c = "]"  -> 93  [] c = "(" -> 40  [] c = "|" -> 124
          [] c = ")"  -> 41  [] c = "a" -> 97  [] c = "b" -> 98
          [] c = "1"  -> 49  [] c = "L/" -> 321]

\* `*c as u8`: a char-to-u8 cast keeps the low 8 bits of the scalar value.
as_u8(c) == CodePoint[c] % 256

\* UTF-8 encoding of one char (scalar values below 0x800: one or two bytes).
encode_utf8(c) ==
    IF CodePoint[c] < 128
    THEN <<CodePoint[c]>>
    ELSE <<192 + (CodePoint[c] \div 64), 128 + (CodePoint[c] % 64)>>

\* str::as_bytes: the UTF-8 bytes of a string.
RECURSIVE as_bytes(_)
as_bytes(s) ==
    IF s = <<>> THEN <<>> ELSE encode_utf8(Head(s)) \o as_bytes(Tail(s))

\* std::str::from_utf8(bytes) succeeds (one- and two-byte sequences).
RECURSIVE from_utf8_ok(_)
from_utf8_ok(bytes) ==
    IF bytes = <<>> THEN TRUE
    ELSE IF bytes[1] < 128 THEN from_utf8_ok(Tail(bytes))
    ELSE IF /\ bytes[1] >= 194 /\ bytes[1] <= 223
            /\ Len(bytes) >= 2 /\ bytes[2] >= 128 /\ bytes[2] <= 191
         THEN from_utf8_ok(Tail(Tail(bytes)))
         ELSE FALSE

\* u8::is_ascii_digit
is_ascii_digit(b) == b >= 48 /\ b <= 57

\* u8::is_ascii_alphanumeric() || b == '_'
is_word_byte(b) ==
    \/ is_ascii_digit(b)
    \/ (b >= 65 /\ b <= 90)
    \/ (b >= 97 /\ b <= 122)
    \/ b = 95

\* str::starts_with / str::ends_with on another &str
starts_with(s, t) == Len(t) <= Len(s) /\ SubSeq(s, 1, Len(t)) = t
ends_with(s, t) ==
    Len(t) <= Len(s) /\ SubSeq(s, Len(s) - Len(t) + 1, Len(s)) = t

(***************************************************************************)
(* enum RegexPattern                                                       *)
(***************************************************************************)
Tok(k, ch, cs, pa, pb) == [kind |-> k, c |-> ch, set |-> cs, a |-> pa, b |-> pb]

Char(c)            == Tok("Char", c, <<>>, <<>>, <<>>)
Digit              == Tok("Digit", "", <<>>, <<>>, <<>>)
Word               == Tok("Word", "", <<>>, <<>>, <<>>)
PositiveCharSet(s) == Tok("PositiveCharSet", "", s, <<>>, <<>>)
NegativeCharSet(s) == Tok("NegativeCharSet", "", s, <<>>, <<>>)
Start              == Tok("Start", "", <<>>, <<>>, <<>>)
End                == Tok("End", "", <<>>, <<>>, <<>>)
Plus(c)            == Tok("Plus", c, <<>>, <<>>, <<>>)
ZeroOrOne(c)       == Tok("ZeroOrOne", c, <<>>, <<>>, <<>>)
Dot                == Tok("Dot", "", <<>>, <<>>, <<>>)
Alternative(p1, p2) == Tok("Alternative", "", <<>>, p1, p2)

(***************************************************************************)
(* parse_pattern: the pattern compiler                                     *)
(***************************************************************************)

\* Chars::next() seen from position pos: the char there, or None at the end.
None == "None"
next_char(chars, pos) == IF pos <= Len(chars) THEN chars[pos] ELSE None

Continue(pos, toks) == [status |-> "continue", pos |-> pos, tokens |-> toks]
Return(toks)        == [status |-> "return", pos |-> 0, tokens |-> toks]
Panic               == [status |-> "panic", pos |-> 0, tokens |-> <<>>]

Pop(toks) == SubSeq(toks, 1, Len(toks) - 1)

\* Mutant of parse_escape: an unsupported escape does not panic, its
\* backslash is emitted as a literal.
parse_escape_lenient(chars, pos, toks) ==
    LET e == next_char(chars, pos + 1) IN
    CASE e = "\\" -> Continue(pos + 2, Append(toks, Char("\\")))
      [] e = "d"  -> Continue(pos + 2, Append(toks, Digit))
      [] e = "w"  -> Continue(pos + 2, Append(toks, Word))
      [] OTHER    -> Continue(pos + 1, Append(toks, Char("\\")))

\* Some('\\') arm: the escape sequences.
parse_escape(chars, pos, toks) ==
    LET e == next_char(chars, pos + 1) IN
    CASE e = "\\" -> Continue(pos + 2, Append(toks, Char("\\")))
      [] e = "d"  -> Continue(pos + 2, Append(toks, Digit))
      [] e = "w"  -> Continue(pos + 2, Append(toks, Word))
      [] OTHER    -> Panic

\* Mutant of parse_quantifier: the popped token is quantified whatever its
\* kind.
parse_quantifier_unchecked(q, pos, toks) ==
    IF Len(toks) = 0
    THEN Continue(pos + 1, Append(toks, Char(q)))
    ELSE LET last_token == toks[Len(toks)] IN
         Continue(pos + 1,
                  Append(Pop(toks),
                         IF q = "+" THEN Plus(last_token.c)
                                    ELSE ZeroOrOne(last_token.c)))

\* Some('+') and Some('?') arms: q is the quantifier char.
parse_quantifier(q, pos, toks) ==
    IF Len(toks) = 0
    THEN Continue(pos + 1, Append(toks, Char(q)))
    ELSE LET last_token == toks[Len(toks)] IN
         IF last_token.kind = "Char"
         THEN Continue(pos + 1,
                       Append(Pop(toks),
                              IF q = "+" THEN Plus(last_token.c)
                                         ELSE ZeroOrOne(last_token.c)))
         ELSE Panic

\* Some('^') arm.
parse_caret(pos, toks) ==
    IF Len(toks) > 0
    THEN Continue(pos + 1, Append(toks, Char("^")))
    ELSE Return(Append(toks, Start))

\* Some('$') arm.
parse_dollar(toks) == Return(Append(toks, End))

\* The first match of the Some('[') arm: what follows the opening bracket.
\* pos is the position right after '['.
read_set_head(chars, pos) ==
    LET c1 == next_char(chars, pos) IN
    CASE c1 = "^" ->
            LET c2 == next_char(chars, pos + 1) IN
            CASE c2 = "]"  -> [status |-> "ok", pos |-> pos + 2,
                               char_set |-> <<>>, is_negative |-> TRUE]
              [] c2 = None -> [status |-> "panic", pos |-> 0,
                               char_set |-> <<>>, is_negative |-> TRUE]
              [] OTHER     -> [status |-> "ok", pos |-> pos + 2,
                               char_set |-> <<c2>>, is_negative |-> TRUE]
      [] c1 = "]"  -> [status |-> "ok", pos |-> pos + 1,
                       char_set |-> <<>>, is_negative |-> FALSE]
      [] c1 = None -> [status |-> "panic", pos |-> 0,
                       char_set |-> <<>>, is_negative |-> FALSE]
      [] OTHER     -> [status |-> "ok", pos |-> pos + 1,
                       char_set |-> <<c1>>, is_negative |-> FALSE]

\* The loop of the Some('[') arm: members up to the closing bracket.
RECURSIVE read_set_body(_, _, _)
read_set_body(chars, pos, char_set) ==
    LET c == next_char(chars, pos) IN
    CASE c = "]"  -> [status |-> "ok", pos |-> pos + 1, char_set |-> char_set]
      [] c = None -> [status |-> "panic", pos |-> 0, char_set |-> <<>>]
      [] OTHER    -> read_set_body(chars, pos + 1, Append(char_set, c))

\* Some('[') arm.
parse_set(chars, pos, toks) ==
    LET h == read_set_head(chars, pos + 1) IN
    IF h.status = "panic" THEN Panic
    ELSE LET r == read_set_body(chars, h.pos, h.char_set) IN
         IF r.status = "panic" THEN Panic
         ELSE Continue(r.pos,
                       Append(toks, IF h.is_negative
                                    THEN NegativeCharSet(r.char_set)
                                    ELSE PositiveCharSet(r.char_set)))

\* Mutant of read_group: only the first '|' splits, a further one is kept
\* as a character of pattern_b.
RECURSIVE read_group_keeps_bars(_, _, _, _, _)
read_group_keeps_bars(chars, pos, pattern_a, pattern_b, is_pattern_a) ==
    LET c == next_char(chars, pos) IN
    CASE c = "|" /\ is_pattern_a ->
            read_group_keeps_bars(chars, pos + 1, pattern_a, pattern_b, FALSE)
      [] c = ")"  -> [status |-> "ok", pos |-> pos + 1,
                      pattern_a |-> pattern_a, pattern_b |-> pattern_b]
      [] c = None -> [status |-> "panic", pos |-> 0,
                      pattern_a |-> <<>>, pattern_b |-> <<>>]
      [] OTHER    -> IF is_pattern_a
                     THEN read_group_keeps_bars(chars, pos + 1,
                                                Append(pattern_a, c),
                                                pattern_b, is_pattern_a)
                     ELSE read_group_keeps_bars(chars, pos + 1, pattern_a,
                                                Append(pattern_b, c),
                                                is_pattern_a)

\* The loop of the Some('(') arm: the two sub-pattern texts up to ')'.
RECURSIVE read_group(_, _, _, _, _)
read_group(chars, pos, pattern_a, pattern_b, is_pattern_a) ==
    LET c == next_char(chars, pos) IN
    CASE c = "|"  -> read_group(chars, pos + 1, pattern_a, pattern_b, FALSE)
      [] c = ")"  -> [status |-> "ok", pos |-> pos + 1,
                      pattern_a |-> pattern_a, pattern_b |-> pattern_b]
      [] c = None -> [status |-> "panic", pos |-> 0,
                      pattern_a |-> <<>>, pattern_b |-> <<>>]
      [] OTHER    -> IF is_pattern_a
                     THEN read_group(chars, pos + 1, Append(pattern_a, c),
                                     pattern_b, is_pattern_a)
                     ELSE read_group(chars, pos + 1, pattern_a,
                                     Append(pattern_b, c), is_pattern_a)

RECURSIVE parse_pattern(_)

\* Some('(') arm.
parse_group(chars, pos, toks) ==
    LET g == read_group(chars, pos + 1, <<>>, <<>>, TRUE) IN
    IF g.status = "panic" THEN Panic
    ELSE LET ra == parse_pattern(g.pattern_a)
             rb == parse_pattern(g.pattern_b) IN
         IF ra.status = "panic" \/ rb.status = "panic" THEN Panic
         ELSE Continue(g.pos,
                       Append(toks, Alternative(ra.tokens, rb.tokens)))

\* One iteration of the loop of parse_pattern: the token at position pos.
parse_step(chars, pos, toks) ==
    LET c == next_char(chars, pos) IN
    CASE c = None -> Return(toks)
      [] c = "\\" -> parse_escape(chars, pos, toks)
      [] c = "+"  -> parse_quantifier("+", pos, toks)
      [] c = "?"  -> parse_quantifier("?", pos, toks)
      [] c = "."  -> Continue(pos + 1, Append(toks, Dot))
      [] c = "^"  -> parse_caret(pos, toks)
      [] c = "$"  -> parse_dollar(toks)
      [] c = "["  -> parse_set(chars, pos, toks)
      [] c = "("  -> parse_group(chars, pos, toks)
      [] OTHER    -> Continue(pos + 1, Append(toks, Char(c)))

RECURSIVE parse_loop(_, _, _)
parse_loop(chars, pos, toks) ==
    LET r == parse_step(chars, pos, toks) IN
    IF r.status = "continue" THEN parse_loop(chars, r.pos, r.tokens) ELSE r

\* fn parse_pattern(pattern: &str) -> Vec<RegexPattern>, or a panic.
parse_pattern(chars) == parse_loop(chars, 1, <<>>)

(***************************************************************************)
(* match_with_pattern: the matching engine                                 *)
(***************************************************************************)

\* input_bytes.first() == Some(&b)
first_is(bytes, b) == bytes # <<>> /\ bytes[1] = b

\* &input_bytes[n..]; the caller checks n <= len (the slice panics otherwise).
slice_from(bytes, n) == SubSeq(bytes, n + 1, Len(bytes))

Advance(bytes, idx) == [status |-> "continue", input_bytes |-> bytes, idx |-> idx]
Fail                == [status |-> "false", input_bytes |-> <<>>, idx |-> 0]
Abort               == [status |-> "panic", input_bytes |-> <<>>, idx |-> 0]

\* RegexPattern::Char(c) arm; pat is the whole sequence, idx the position of
\* this token (pattern_iter.peek() is pat[idx + 1]).
match_char(bytes, pat, idx) ==
    IF first_is(bytes, as_u8(pat[idx].c))
    THEN Advance(slice_from(bytes, 1), idx + 1)
    ELSE IF idx + 1 <= Len(pat) /\ pat[idx + 1].kind = "ZeroOrOne"
         THEN IF Len(bytes) >= 2
              THEN Advance(slice_from(bytes, 2), idx + 2)
              ELSE Abort
         ELSE Fail

\* RegexPattern::Digit and RegexPattern::Word arms: the position of the first
\* byte of the class, 0 when there is none.
find_digit(bytes) ==
    LET hits == {i \in 1..Len(bytes) : is_ascii_digit(bytes[i])} IN
    IF hits = {} THEN 0 ELSE CHOOSE i \in hits : \A j \in hits : i <= j

find_word(bytes) ==
    LET hits == {i \in 1..Len(bytes) : is_word_byte(bytes[i])} IN
    IF hits = {} THEN 0 ELSE CHOOSE i \in hits : \A j \in hits : i <= j

match_class(bytes, found, idx) ==
    IF found > 0 THEN Advance(slice_from(bytes, found), idx + 1) ELSE Fail

\* The `matched` flag of the two character-set arms.
set_matched(bytes, char_set) ==
    \E i \in 1..Len(char_set) : first_is(bytes, as_u8(char_set[i]))

\* RegexPattern::PositiveCharSet arm.
match_positive_set(bytes, char_set, idx) ==
    IF set_matched(bytes, char_set)
    THEN Advance(slice_from(bytes, 1), idx + 1)
    ELSE Fail

\* Mutant of match_negative_set: on exhausted input the slice saturates
\* instead of panicking.
match_negative_set_saturating(bytes, char_set, idx) ==
    IF set_matched(bytes, char_set)
    THEN Fail
    ELSE IF Len(bytes) >= 1
         THEN Advance(slice_from(bytes, 1), idx + 1)
         ELSE Advance(bytes, idx + 1)

\* RegexPattern::NegativeCharSet arm.
match_negative_set(bytes, char_set, idx) ==
    IF set_matched(bytes, char_set)
    THEN Fail
    ELSE IF Len(bytes) >= 1
         THEN Advance(slice_from(bytes, 1), idx + 1)
         ELSE Abort

\* The greedy loop of the RegexPattern::Plus arm.
RECURSIVE consume_run(_, _)
consume_run(bytes, b) ==
    IF first_is(bytes, b) THEN consume_run(slice_from(bytes, 1), b) ELSE bytes

\* RegexPattern::Plus(c) arm.
match_plus(bytes, c, idx) ==
    IF first_is(bytes, as_u8(c))
    THEN Advance(consume_run(slice_from(bytes, 1), as_u8(c)), idx + 1)
    ELSE Fail

\* RegexPattern::ZeroOrOne(c) arm.
match_zero_or_one(bytes, c, idx) ==
    IF first_is(bytes, as_u8(c))
    THEN Advance(slice_from(bytes, 1), idx + 1)
    ELSE Advance(bytes, idx + 1)

\* Mutant of match_anchor: an anchor reached by the engine is skipped.
match_anchor_skipped(bytes, idx) == Advance(bytes, idx + 1)

\* RegexPattern::Start and RegexPattern::End arms: return false.
match_anchor(bytes, idx) == Fail

\* RegexPattern::Dot arm.
match_dot(bytes, idx) ==
    IF bytes # <<>> THEN Advance(slice_from(bytes, 1), idx + 1) ELSE Fail

RECURSIVE match_with_pattern(_, _)

\* RegexPattern::Alternative arm.  from_utf8(..).unwrap() panics on bytes
\* that are no UTF-8 text; a panic inside a branch unwinds through the caller.
match_alternative(bytes, pattern_1, pattern_2, idx) ==
    IF ~from_utf8_ok(bytes) THEN Abort
    ELSE LET r1 == match_with_pattern(bytes, pattern_1) IN
         CASE r1 = "true"  -> Advance(bytes, idx + 1)
           [] r1 = "panic" -> Abort
           [] OTHER ->
                LET r2 == match_with_pattern(bytes, pattern_2) IN
                CASE r2 = "true"  -> Advance(bytes, idx + 1)
                  [] r2 = "panic" -> Abort
                  [] OTHER        -> Fail

\* One iteration of the while-let loop of match_with_pattern.
match_step(bytes, pat, idx) ==
    LET p == pat[idx] IN
    CASE p.kind = "Char"            -> match_char(bytes, pat, idx)
      [] p.kind = "Digit"           -> match_class(bytes, find_digit(bytes), idx)
      [] p.kind = "Word"            -> match_class(bytes, find_word(bytes), idx)
      [] p.kind = "PositiveCharSet" -> match_positive_set(bytes, p.set, idx)
      [] p.kind = "NegativeCharSet" -> match_negative_set(bytes, p.set, idx)
      [] p.kind = "Start"           -> match_anchor(bytes, idx)
      [] p.kind = "End"             -> match_anchor(bytes, idx)
      [] p.kind = "Plus"            -> match_plus(bytes, p.c, idx)
      [] p.kind = "ZeroOrOne"       -> match_zero_or_one(bytes, p.c, idx)
      [] p.kind = "Dot"             -> match_dot(bytes, idx)
      [] p.kind = "Alternative"     -> match_alternative(bytes, p.a, p.b, idx)

RECURSIVE match_loop(_, _, _)
match_loop(bytes, pat, idx) ==
    IF idx > Len(pat) THEN "true"
    ELSE LET r == match_step(bytes, pat, idx) IN
         IF r.status = "continue"
         THEN match_loop(r.input_bytes, pat, r.idx)
         ELSE r.status

\* fn match_with_pattern(input_line: &str, pattern: &[RegexPattern]) -> bool,
\* on the bytes of input_line: "true", "false" or "panic".
match_with_pattern(bytes, pat) == match_loop(bytes, pat, 1)

(***************************************************************************)
(* Inputs                                                                  *)
(***************************************************************************)
MaxLineLen    == 2
MaxPatternLen == 3
MaxLiteralLen == 3
MaxSetLen     == 4
MaxGroupBody  == 3
MaxAppend     == 2

Texts(alphabet, n) == UNION {[1..k -> alphabet] : k \in 0..n}

LineChars    == {"a", "1", "L/"}
LiteralChars == {"a", "1", "L/"}
PatternChars == {"\\", "d", "w", "+", "?", ".", "^", "$", "(", "a", "1"}
SetChars     == {"[", "]", "^", "a", "\\"}
GroupChars   == {"a", "1", "|", "^", "\\", "+"}
RestChars    == {"a", "1", "?", "."}

Lines == Texts(LineChars, MaxLineLen)

LiteralTexts == Texts(LiteralChars, MaxLiteralLen)

\* The pattern texts: short texts over the special characters, literal texts
\* alone and anchored, character sets, and one group followed by at most one
\* more character.
Patterns ==
    Texts(PatternChars, MaxPatternLen)
    \cup LiteralTexts
    \cup {<<"^">> \o t : t \in LiteralTexts}
    \cup {t \o <<"$">> : t \in LiteralTexts}
    \cup Texts(SetChars, MaxSetLen)
    \cup {<<"(">> \o body \o <<")">> \o rest :
              body \in Texts(GroupChars, MaxGroupBody),
              rest \in Texts(RestChars, 1)}

(***************************************************************************)
(* match_pattern as a state machine                                        *)
(***************************************************************************)
Init ==
    /\ input_line \in Lines
    /\ pattern \in Patterns
    /\ pc = "check_start"
    /\ pattern_chars = 1
    /\ tokens = <<>>
    /\ input_bytes = <<>>
    /\ pattern_iter = 1
    /\ result = "none"
    /\ exit_site = ""

\* exit_site names the place that ended the operation: the return of line 26
\* ("start_anchor"), of line 30 ("end_anchor"), or the call that returned or
\* panicked ("parse_pattern", "match_with_pattern").
\* if pattern.starts_with('^') && input_line.starts_with(&pattern[1..])
CheckStartAnchor ==
    /\ pc = "check_start"
    /\ IF pattern # <<>> /\ pattern[1] = "^"
          /\ starts_with(input_line, Tail(pattern))
       THEN pc' = "done" /\ result' = "true" /\ exit_site' = "start_anchor"
       ELSE pc' = "check_end" /\ UNCHANGED <<result, exit_site>>
    /\ UNCHANGED <<input_line, pattern, pattern_chars, tokens, input_bytes,
                   pattern_iter>>

\* if pattern.ends_with('$') && input_line.ends_with(&pattern[..len - 1])
CheckEndAnchor ==
    /\ pc = "check_end"
    /\ IF pattern # <<>> /\ pattern[Len(pattern)] = "$"
          /\ ends_with(input_line, Pop(pattern))
       THEN pc' = "done" /\ result' = "true" /\ exit_site' = "end_anchor"
       ELSE pc' = "parse" /\ UNCHANGED <<result, exit_site>>
    /\ UNCHANGED <<input_line, pattern, pattern_chars, tokens, input_bytes,
                   pattern_iter>>

\* One iteration of the loop of parse_pattern(pattern).
ParseStep ==
    /\ pc = "parse"
    /\ LET r == parse_step(pattern, pattern_chars, tokens) IN
       CASE r.status = "continue" ->
                /\ pattern_chars' = r.pos
                /\ tokens' = r.tokens
                /\ UNCHANGED <<pc, input_bytes, result, exit_site>>
         [] r.status = "return" ->
                /\ tokens' = r.tokens
                /\ pc' = "match"
                /\ input_bytes' = as_bytes(input_line)
                /\ UNCHANGED <<pattern_chars, result, exit_site>>
         [] OTHER ->
                /\ pc' = "done"
                /\ result' = "panic"
                /\ exit_site' = "parse_pattern"
                /\ UNCHANGED <<pattern_chars, tokens, input_bytes>>
    /\ UNCHANGED <<input_line, pattern, pattern_iter>>

\* One iteration of the loop of match_with_pattern(input_line, &regex_pattern).
MatchStep ==
    /\ pc = "match"
    /\ pattern_iter <= Len(tokens)
    /\ LET r == match_step(input_bytes, tokens, pattern_iter) IN
       CASE r.status = "continue" ->
                /\ input_bytes' = r.input_bytes
                /\ pattern_iter' = r.idx
                /\ UNCHANGED <<pc, result, exit_site>>
         [] r.status = "false" ->
                /\ pc' = "done"
                /\ result' = "false"
                /\ exit_site' = "match_with_pattern"
                /\ UNCHANGED <<input_bytes, pattern_iter>>
         [] OTHER ->
                /\ pc' = "done"
                /\ result' = "panic"
                /\ exit_site' = "match_with_pattern"
                /\ UNCHANGED <<input_bytes, pattern_iter>>
    /\ UNCHANGED <<input_line, pattern, pattern_chars, tokens>>

\* The loop of match_with_pattern ran out of tokens: it returns true.
MatchReturn ==
    /\ pc = "match"
    /\ pattern_iter > Len(tokens)
    /\ pc' = "done"
    /\ result' = "true"
    /\ exit_site' = "match_with_pattern"
    /\ UNCHANGED <<input_line, pattern, pattern_chars, tokens, input_bytes,
                   pattern_iter>>

Next ==
    \/ CheckStartAnchor
    \/ CheckEndAnchor
    \/ ParseStep
    \/ MatchStep
    \/ MatchReturn

Spec == Init /\ [][Next]_vars

TypeOK ==
    /\ pc \in {"check_start", "check_end", "parse", "match", "done"}
    /\ result \in {"none", "true", "false", "panic"}
    /\ (pc = "done") = (result # "none")
    /\ exit_site \in {"", "start_anchor", "end_anchor", "parse_pattern",
                      "match_with_pattern"}

(***************************************************************************)
(* Properties                                                              *)
(***************************************************************************)
Done == pc = "done"

SpecialChars == {"\\", "+", "?", ".", "^", "$", "[", "("}

\* A text made only of characters with no special meaning.
IsLiteralText(t) == \A i \in 1..Len(t) : t[i] \notin SpecialChars

Min(S) == CHOOSE i \in S : \A j \in S : i <= j

\* The token the engine is about to process.
AtToken(kind) ==
    /\ pc = "match"
    /\ pattern_iter <= Len(tokens)
    /\ tokens[pattern_iter].kind = kind

\* C1: for a pattern made only of literal characters, match_pattern returns
\* true if and only if the line begins with exactly that character sequence
\* (and it returns a boolean).
C1_LiteralMatchesIffPrefix ==
    (Done /\ IsLiteralText(pattern)) =>
        /\ result \in {"true", "false"}
        /\ (result = "true") = starts_with(input_line, pattern)

\* The body of a group opening at position i of t (up to the first ')'), and
\* the two sub-pattern texts: the text before the first '|', and the text after
\* it, either as it stands or with every further '|' dropped.
GroupClosers(t, i) == {j \in (i + 1)..Len(t) : t[j] = ")"}
GroupBody(t, i)    == SubSeq(t, i + 1, Min(GroupClosers(t, i)) - 1)
Bars(body)         == {j \in 1..Len(body) : body[j] = "|"}
LeftText(body) ==
    IF Bars(body) = {} THEN body ELSE SubSeq(body, 1, Min(Bars(body)) - 1)
RightTextWhole(body) ==
    IF Bars(body) = {} THEN <<>>
    ELSE SubSeq(body, Min(Bars(body)) + 1, Len(body))
NotBar(c) == c # "|"
RightTextBarsDropped(body) == SelectSeq(RightTextWhole(body), NotBar)

\* A left-to-right reading of the text t from position i that meets a
\* malformed construct: an unsupported escape, a set with no closing ']', a
\* group with no closing ')', or a quantifier after an instruction that is not
\* a plain literal.  prev is the kind of the instruction read last ("none",
\* "lit", "other").  With stops, the reading ends at a leading '^' and at a
\* '$', as the compiler's does; without, it goes on to the end of the text.
RECURSIVE MalformedFrom(_, _, _, _)
MalformedFrom(t, i, prev, stops) ==
    IF i > Len(t) THEN FALSE
    ELSE
    LET c == t[i] IN
    CASE c = "\\" ->
            IF i + 1 <= Len(t) /\ t[i + 1] \in {"\\", "d", "w"}
            THEN MalformedFrom(t, i + 2,
                               IF t[i + 1] = "\\" THEN "lit" ELSE "other", stops)
            ELSE TRUE
      [] c \in {"+", "?"} ->
            CASE prev = "none" -> MalformedFrom(t, i + 1, "lit", stops)
              [] prev = "lit"  -> MalformedFrom(t, i + 1, "other", stops)
              [] OTHER         -> TRUE
      [] c = "." -> MalformedFrom(t, i + 1, "other", stops)
      [] c = "^" ->
            IF prev # "none" THEN MalformedFrom(t, i + 1, "lit", stops)
            ELSE IF stops THEN FALSE
            ELSE MalformedFrom(t, i + 1, "other", stops)
      [] c = "$" ->
            IF stops THEN FALSE ELSE MalformedFrom(t, i + 1, "other", stops)
      [] c = "[" ->
            LET k == IF i + 1 <= Len(t) /\ t[i + 1] = "^" THEN i + 2 ELSE i + 1
                closers == {j \in (k + 1)..Len(t) : t[j] = "]"} IN
            IF closers = {} THEN TRUE
            ELSE MalformedFrom(t, Min(closers) + 1, "other", stops)
      [] c = "(" ->
            IF GroupClosers(t, i) = {} THEN TRUE
            ELSE LET body == GroupBody(t, i) IN
                 \/ MalformedFrom(LeftText(body), 1, "none", stops)
                 \/ MalformedFrom(RightTextBarsDropped(body), 1, "none", stops)
                 \/ MalformedFrom(t, Min(GroupClosers(t, i)) + 1, "other", stops)
      [] OTHER -> MalformedFrom(t, i + 1, "lit", stops)

MalformedAnywhere(t) == MalformedFrom(t, 1, "none", FALSE)
MalformedReached(t)  == MalformedFrom(t, 1, "none", TRUE)

AnchorFastPathHits ==
    \/ pattern # <<>> /\ pattern[1] = "^"
         /\ starts_with(input_line, Tail(pattern))
    \/ pattern # <<>> /\ pattern[Len(pattern)] = "$"
         /\ ends_with(input_line, Pop(pattern))

\* C2 (as stated): whenever the pattern text contains a malformed construct,
\* wherever it occurs, the operation aborts for every input line.
C2_MalformedAlwaysAborts ==
    (Done /\ MalformedAnywhere(pattern)) => result = "panic"

\* C2 (amended): whenever the compiler's reading of the pattern text, which
\* ends at a leading '^' and at a '$' (in the pattern and in a group branch),
\* reaches a malformed construct, the operation aborts in the compiler, unless
\* an anchor fast path has returned true before compilation starts.
C2_MalformedReachedAborts ==
    (Done /\ MalformedReached(pattern) /\ ~AnchorFastPathHits) =>
        (result = "panic" /\ exit_site = "parse_pattern")

\* C2 witness: a malformed construct met after some instructions were emitted
\* has aborted the compilation.
C2_Witness ==
    /\ Done /\ MalformedReached(pattern) /\ ~AnchorFastPathHits
    /\ result = "panic" /\ tokens # <<>>

\* C3: the matching engine ends by returning true or false; it never aborts.
C3_EngineNeverAborts ==
    (Done /\ exit_site = "match_with_pattern") => result \in {"true", "false"}

\* C4: for a literal text t, "^" + t matches iff the line starts with t, and
\* t + "$" matches iff the line ends with t; the fall-through to compilation
\* and matching never makes the result true.
C4_AnchoredLiteral ==
    Done =>
        /\ (pattern # <<>> /\ pattern[1] = "^" /\ IsLiteralText(Tail(pattern)))
              => /\ result \in {"true", "false"}
                 /\ (result = "true") = starts_with(input_line, Tail(pattern))
        /\ (pattern # <<>> /\ pattern[Len(pattern)] = "$"
              /\ IsLiteralText(Pop(pattern)))
              => /\ result \in {"true", "false"}
                 /\ (result = "true") = ends_with(input_line, Pop(pattern))

\* C4 witness: the suffix comparison failed, the pattern was compiled, the
\* engine matched the literals of t and stopped at the End instruction.
C4_Witness ==
    /\ Done /\ result = "false" /\ exit_site = "match_with_pattern"
    /\ Len(pattern) >= 2 /\ pattern[Len(pattern)] = "$"
    /\ IsLiteralText(Pop(pattern))
    /\ pattern_iter = Len(tokens) /\ tokens[pattern_iter].kind = "End"

\* What is left of bytes after the sequence pat has matched it.
RECURSIVE RestAfter(_, _, _)
RestAfter(bytes, pat, idx) ==
    IF idx > Len(pat) THEN bytes
    ELSE LET r == match_step(bytes, pat, idx) IN
         IF r.status = "continue" THEN RestAfter(r.input_bytes, pat, r.idx)
         ELSE bytes

\* C5: when an Alternation succeeds, the cursor advances by what the matching
\* branch consumed: the input left for the following instructions is the
\* input left after the branch.
C5_AlternationStep ==
    (AtToken("Alternative") /\ pc' = "match") =>
        LET p == tokens[pattern_iter] IN
        input_bytes' =
            IF match_with_pattern(input_bytes, p.a) = "true"
            THEN RestAfter(input_bytes, p.a, 1)
            ELSE RestAfter(input_bytes, p.b, 1)

C5_AlternationAdvancesCursor == [][C5_AlternationStep]_vars

\* C6: when a Literal(c) is reached and the next byte is not c, the match
\* fails unless the next instruction is ZeroOrOne of that same c.
C6_LiteralStep ==
    (/\ AtToken("Char")
     /\ ~first_is(input_bytes, as_u8(tokens[pattern_iter].c))
     /\ ~(/\ pattern_iter + 1 <= Len(tokens)
          /\ tokens[pattern_iter + 1] = ZeroOrOne(tokens[pattern_iter].c)))
    => (pc' = "done" /\ result' = "false")

C6_LiteralMismatchFails == [][C6_LiteralStep]_vars

\* The compiler is about to read the character c of the pattern.
AtPatternChar(c) ==
    pc = "parse" /\ next_char(pattern, pattern_chars) = c

Members(char_set) == {char_set[i] : i \in 1..Len(char_set)}

\* C7: a ']' right after the opening '[', or right after the '^' of a
\* negative set, is a member of the emitted set.
C7_SetStep ==
    (/\ AtPatternChar("[")
     /\ \/ next_char(pattern, pattern_chars + 1) = "]"
        \/ /\ next_char(pattern, pattern_chars + 1) = "^"
           /\ next_char(pattern, pattern_chars + 2) = "]"
     /\ Len(tokens') = Len(tokens) + 1)
    => "]" \in Members(tokens'[Len(tokens')].set)

C7_LeadingBracketIsMember == [][C7_SetStep]_vars

\* The compiler has read a whole group and emitted its instruction.
GroupEmitted ==
    /\ AtPatternChar("(")
    /\ Len(tokens') = Len(tokens) + 1

\* C8 (as stated): the emitted Alternation holds the compilation of the body
\* text before the first '|' and of all the body text after it.
C8_GroupStepWhole ==
    GroupEmitted =>
        LET body == GroupBody(pattern, pattern_chars) IN
        tokens'[Len(tokens')] =
            Alternative(parse_pattern(LeftText(body)).tokens,
                        parse_pattern(RightTextWhole(body)).tokens)

C8_SplitsAtFirstBarOnly == [][C8_GroupStepWhole]_vars

\* C8 (amended): the emitted Alternation holds the compilation of the body
\* text before the first '|' and of the body text after it with every further
\* '|' removed; both texts compile, and the reading resumes after the ')'.
C8_GroupStepBarsDropped ==
    GroupEmitted =>
        LET body == GroupBody(pattern, pattern_chars)
            left  == parse_pattern(LeftText(body))
            right == parse_pattern(RightTextBarsDropped(body)) IN
        /\ left.status = "return" /\ right.status = "return"
        /\ tokens' = Append(tokens, Alternative(left.tokens, right.tokens))
        /\ pattern_chars' = Min(GroupClosers(pattern, pattern_chars)) + 1

C8_SplitDropsFurtherBars == [][C8_GroupStepBarsDropped]_vars

\* C8 witness: a group whose body holds two '|' has been compiled, and its
\* right branch is not empty.
C8_Witness ==
    /\ tokens # <<>> /\ tokens[Len(tokens)].kind = "Alternative"
    /\ tokens[Len(tokens)].b # <<>>
    /\ Cardinality({i \in 1..Len(pattern) : pattern[i] = "|"}) >= 2

\* The anchors of the sequence toks compiled from text: Start only alone and
\* for a leading '^', End only last.
AnchorsPlaced(toks, text) ==
    \A i \in 1..Len(toks) :
        /\ toks[i].kind = "Start" =>
              /\ Len(toks) = 1
              /\ text # <<>> /\ text[1] = "^"
        /\ toks[i].kind = "End" => i = Len(toks)

\* Every quantified instruction of after is one of before, or replaces the
\* Literal of the same character that ended before.
QuantifiersFromLiterals(before, after) ==
    \A i \in 1..Len(after) :
        after[i].kind \in {"Plus", "ZeroOrOne"} =>
            \/ i <= Len(before) /\ before[i] = after[i]
            \/ /\ i = Len(before) /\ Len(after) = Len(before)
               /\ before[i] = Char(after[i].c)

\* Every step of the compilation of text, from position pos with toks
\* emitted, keeps the anchors placed and makes quantifiers of literals only.
RECURSIVE CompilationKeeps(_, _, _)
CompilationKeeps(text, pos, toks) ==
    LET r == parse_step(text, pos, toks) IN
    \/ r.status = "panic"
    \/ /\ AnchorsPlaced(r.tokens, text)
       /\ QuantifiersFromLiterals(toks, r.tokens)
       /\ r.status = "continue" => CompilationKeeps(text, r.pos, r.tokens)

C9_State ==
    /\ AnchorsPlaced(tokens, pattern)
    /\ \A i \in 1..Len(tokens) :
          tokens[i].kind \in {"Plus", "ZeroOrOne"} => tokens[i].c # ""

C9_Step ==
    /\ QuantifiersFromLiterals(tokens, tokens')
    /\ GroupEmitted =>
          LET g == read_group(pattern, pattern_chars + 1, <<>>, <<>>, TRUE)
              p == tokens'[Len(tokens')] IN
          /\ AnchorsPlaced(p.a, g.pattern_a)
          /\ AnchorsPlaced(p.b, g.pattern_b)
          /\ CompilationKeeps(g.pattern_a, 1, <<>>)
          /\ CompilationKeeps(g.pattern_b, 1, <<>>)

\* C9: at every step of compilation and on return, at the top level and in
\* each Alternation branch, StartAnchor is the sole instruction and stands for
\* a leading '^', EndAnchor is the last instruction, and every OneOrMore(c) or
\* ZeroOrOne(c) replaces the Literal(c) emitted right before it.
C9_CompilerInvariants == []C9_State /\ [][C9_Step]_vars

\* C9 witness: compilation has returned a sequence with a quantified literal
\* and a trailing EndAnchor.
C9_Witness ==
    /\ pc = "match" /\ Len(tokens) >= 2
    /\ tokens[Len(tokens)].kind = "End"
    /\ tokens[Len(tokens) - 1].kind \in {"Plus", "ZeroOrOne"}

NoAlternation(toks) == \A i \in 1..Len(toks) : toks[i].kind # "Alternative"

EngineReturnedTrue ==
    Done /\ exit_site = "match_with_pattern" /\ result = "true"

\* C10: when the engine returns true for a sequence with no Alternation, it
\* returns true on every line obtained by appending characters to the line.
C10_PrefixClosed ==
    (EngineReturnedTrue /\ NoAlternation(tokens)) =>
        \A more \in Texts(LineChars, MaxAppend) :
            match_with_pattern(as_bytes(input_line \o more), tokens) = "true"

\* C10 witness: the engine returned true having consumed the whole line with
\* a greedy OneOrMore as the last instruction, which appended input feeds.
C10_Witness ==
    /\ EngineReturnedTrue /\ NoAlternation(tokens)
    /\ tokens # <<>> /\ tokens[Len(tokens)].kind = "Plus"
    /\ input_line # <<>> /\ input_bytes = <<>>

=============================================================================
